---- MODULE Spec2Model ----
(***************************************************************************)
(* Model of the starter-kit templates:                                     *)
(*   templates/database_connection.py  (module load, get_db, fix_sequence) *)
(*   templates/diagnostic_endpoints.py (db-check, env-check, table-info,   *)
(*                                      sequence-check, version)           *)
(* together with the part of the database the code talks to: one table     *)
(* with an integer primary key `id` and its PostgreSQL sequence            *)
(* <table>_id_seq.                                                         *)
(***************************************************************************)
EXTENDS Integers, Sequences, FiniteSets, TLC

\* ------------------------------------------------------------------ bounds

\* Largest primary key a writer may store (ids are 1..MaxId).
MaxId == 2

\* In the env-check comparison, the number of variables in which the second
\* environment may differ from the first.
MaxDiff == 1

\* ------------------------------------------------------------ Python values

\* Python's None, as returned by os.getenv for a variable that is not set.
None == "<None>"

\* bool(x) of a str-or-None value.
Truthy(x) == x # None /\ x # ""

\* str.startswith
StartsWith(s, p) == Len(s) >= Len(p) /\ SubSeq(s, 1, Len(p)) = p

\* os.getenv(key, default) on a mapping from names to strings.
getenv(env, key, default) == IF key \in DOMAIN env THEN env[key] ELSE default

\* Character order used by str comparison (code points of the characters that
\* occur in table names).
Alphabet == "_abcdefghijklmnopqrstuvwxyz"

CharRank(c) == CHOOSE i \in 1..Len(Alphabet) : SubSeq(Alphabet, i, i) = c

\* a < b on str (lexicographic).
RECURSIVE StrLess(_, _)
StrLess(a, b) ==
    IF Len(b) = 0 THEN FALSE
    ELSE IF Len(a) = 0 THEN TRUE
    ELSE LET ca == CharRank(SubSeq(a, 1, 1))
             cb == CharRank(SubSeq(b, 1, 1))
         IN  IF ca # cb THEN ca < cb
             ELSE StrLess(SubSeq(a, 2, Len(a)), SubSeq(b, 2, Len(b)))

\* Insert x into the ascending list s.
RECURSIVE InsertSorted(_, _)
InsertSorted(x, s) ==
    IF s = <<>> THEN <<x>>
    ELSE IF StrLess(s[1], x) THEN <<s[1]>> \o InsertSorted(x, Tail(s))
    ELSE <<x>> \o s

\* sorted(list) for a list of str.
RECURSIVE sorted(_)
sorted(s) == IF s = <<>> THEN <<>> ELSE InsertSorted(s[1], sorted(Tail(s)))

\* All orderings of a finite set, as sequences without repetition.
Orderings(S) ==
    {f \in [1..Cardinality(S) -> S] : \A i, j \in 1..Cardinality(S) : i # j => f[i] # f[j]}

\* ------------------------------------------------------------- environment

\* The variables the templates look at.
EnvNames == {"DATABASE_URL", "ENVIRONMENT", "LOG_LEVEL", "FINNHUB_API_KEY",
             "ALPHA_VANTAGE_API_KEY", "REDIS_URL", "SENTRY_DSN"}

PgUrl     == "postgresql://app@db/prod"
SqliteUrl == "sqlite:///./dev.db"
MysqlUrl  == "mysql://app@db/prod"

\* The deployments considered: <<DATABASE_URL in the process environment,
\* DATABASE_URL in the .env file>>, None where there is none.
Deployments ==
    {<<None, None>>, <<"", None>>, <<None, SqliteUrl>>, <<"", SqliteUrl>>,
     <<SqliteUrl, None>>, <<PgUrl, SqliteUrl>>, <<MysqlUrl, SqliteUrl>>}

\* A mapping that holds DATABASE_URL only when it has a value.
UrlEnv(url) == IF url = None THEN [k \in {} |-> ""] ELSE [k \in {"DATABASE_URL"} |-> url]

\* Values a variable may take in the env-check comparison (None: not set).
EnvValues(k) ==
    CASE k = "DATABASE_URL" -> {None, "", PgUrl, SqliteUrl}
      [] k = "ENVIRONMENT"  -> {None, "", "production", "development"}
      [] OTHER              -> {None, "secret-1", "secret-2"}

\* Values a variable may take in the first environment of the comparison; the
\* second environment draws from EnvValues.
FirstEnvValues(k) ==
    IF k \in {"DATABASE_URL", "ENVIRONMENT"} THEN EnvValues(k) ELSE {None, "secret-1"}

\* A mapping from a choice of value-or-None per name.
EnvOf(choice) ==
    [k \in {n \in DOMAIN choice : choice[n] # None} |-> choice[k]]

\* datetime.utcnow().isoformat()
Timestamps == {"2024-01-01T00:00:00", "2024-01-01T00:00:01"}

VARIABLES
    environ,        \* os.environ of the process
    platform_url,   \* DATABASE_URL as the platform set it, before the module ran
    dotenv,         \* contents of the .env file
    modstate,       \* import of the connection module: "init", "loaded", "failed"
    dotenv_read,    \* load_dotenv() was called
    DATABASE_URL,   \* module-level DATABASE_URL
    engine,         \* module-level engine (its configuration)
    SessionLocal,   \* the session factory exists
    dbTables,       \* names of the tables in the database
    rows,           \* committed ids of table "users"
    seq,            \* committed state of users_id_seq
    req,            \* the requests in flight, per request slot
    fix,            \* the fix_sequence call and its session
    version,        \* last /version response
    environ2,       \* env-check comparison: the second environment
    envResp,        \* env-check response under environ
    envResp2        \* env-check response under environ2

vars == <<environ, platform_url, dotenv, modstate, dotenv_read, DATABASE_URL, engine, SessionLocal,
          dbTables, rows, seq, req, fix, version, environ2, envResp, envResp2>>

loadVars == <<environ, platform_url, dotenv, modstate, dotenv_read, DATABASE_URL, engine, SessionLocal>>
dbVars   == <<dbTables, rows, seq>>
envVars  == <<environ2, envResp, envResp2>>

\* ------------------------------------------------- database_connection.py

\* load_dotenv(): adds the file's entries to the environment; a variable that is
\* already in the environment keeps its value (override=False).
load_dotenv(env, file) ==
    [k \in DOMAIN env \cup DOMAIN file |-> IF k \in DOMAIN env THEN env[k] ELSE file[k]]

\* `if not os.getenv('DATABASE_URL')` dropped: the file is always read.
should_load_dotenv_always(env) == TRUE

\* `if not os.getenv('DATABASE_URL')`
should_load_dotenv(env) == ~Truthy(getenv(env, "DATABASE_URL", None))

NoEngine == [kind |-> "none"]

\* The two create_engine calls.
create_engine(url) ==
    IF StartsWith(url, "sqlite")
    THEN [kind |-> "sqlite", poolclass |-> "StaticPool", check_same_thread |-> FALSE]
    ELSE [kind |-> "postgresql", pool_size |-> 5, max_overflow |-> 10,
          pool_pre_ping |-> TRUE, pool_recycle |-> 3600]

\* Import of the connection module: environment setup, engine and session factory.
Load ==
    /\ modstate = "init"
    /\ LET read == should_load_dotenv(environ)
           env1 == IF read THEN load_dotenv(environ, dotenv) ELSE environ
           url  == getenv(env1, "DATABASE_URL", None)
       IN  /\ environ' = env1
           /\ dotenv_read' = read
           /\ DATABASE_URL' = url
           /\ IF ~Truthy(url)
              THEN \* raise ValueError: nothing below line 27 runs
                   /\ modstate' = "failed"
                   /\ UNCHANGED <<engine, SessionLocal>>
              ELSE /\ modstate' = "loaded"
                   /\ engine' = create_engine(url)
                   /\ SessionLocal' = TRUE
    /\ UNCHANGED <<platform_url, dotenv, dbVars, req, fix, version, envVars>>

\* ------------------------------------------------- diagnostic_endpoints.py

\* The database_type of /version.
db_type(database_url) ==
    IF StartsWith(database_url, "postgresql") THEN "PostgreSQL"
    ELSE IF StartsWith(database_url, "sqlite") THEN "SQLite"
    ELSE "Unknown"

\* GET /version
version_info(env) ==
    [app_version   |-> "1.0.0",
     database_type |-> db_type(getenv(env, "DATABASE_URL", "")),
     environment   |-> getenv(env, "ENVIRONMENT", "unknown")]

VersionInfo ==
    /\ modstate = "loaded"
    /\ version' = version_info(environ)
    /\ UNCHANGED <<loadVars, dbVars, req, fix, envVars>>

\* The "environment" entry of env-check.
env_environment(env) == getenv(env, "ENVIRONMENT", "unknown")

\* One "<name>_set" entry of env-check, were it to report the value.
env_flag_leaky(env, k) == getenv(env, k, None)

\* One "<name>_set" entry of env-check.
env_flag(env, k) == Truthy(getenv(env, k, None))

\* GET /env-check
environment_check(env, now) ==
    [environment |-> env_environment(env),
     variables   |-> [database_url_set          |-> env_flag(env, "DATABASE_URL"),
                      environment_set           |-> env_flag(env, "ENVIRONMENT"),
                      log_level_set             |-> env_flag(env, "LOG_LEVEL"),
                      finnhub_api_key_set       |-> env_flag(env, "FINNHUB_API_KEY"),
                      alpha_vantage_api_key_set |-> env_flag(env, "ALPHA_VANTAGE_API_KEY"),
                      redis_url_set             |-> env_flag(env, "REDIS_URL"),
                      sentry_dsn_set            |-> env_flag(env, "SENTRY_DSN")],
     timestamp   |-> now]

\* ------------------------------------------------------------ the database

\* Tables the requests and fix_sequence are called for; "ghost" does not exist.
TableArgs == {"users", "ghost"}

\* The tables of the application's schema.
SchemaTables == {"items", "users"}

\* A sequence that has never been used: nextval gives 1.
FreshSeq == [last_value |-> 1, is_called |-> FALSE]

\* What nextval('<table>_id_seq') returns in sequence state s.
nextval(s) == IF s.is_called THEN s.last_value + 1 ELSE s.last_value

\* Largest element of a non-empty set of integers.
SetMax(S) == CHOOSE m \in S : \A x \in S : x <= m

\* Result.scalar() of SELECT MAX(id): <<>> is SQL NULL (no rows), else <<value>>.
select_max(ids) == IF ids = {} THEN <<>> ELSE <<SetMax(ids)>>

\* `scalar() or 0`
or_zero(r) == IF r = <<>> THEN 0 ELSE IF r[1] = 0 THEN 0 ELSE r[1]

\* The backend behind the URL has sequences.
HasSequences == modstate = "loaded" /\ StartsWith(DATABASE_URL, "postgresql")

\* An insert by another session committed: what the bookkeeping of the fix and of
\* the sequence checks in flight records about it.
NoteWrite ==
    /\ fix' = [fix EXCEPT !.dirty = @ \/ fix.pc \in {"alter", "commit"},
                          !.after = @ \/ (fix.pc = "returned" /\ fix.committed)]
    /\ req' = [r \in DOMAIN req |-> [req[r] EXCEPT !.fresh = FALSE]]

\* Another session inserts a row whose id comes from the sequence, and commits.
\* nextval is never rolled back; a duplicate key loses the row, not the value.
InsertSeq ==
    /\ HasSequences
    /\ fix.pc # "commit"        \* nextval waits for an uncommitted ALTER SEQUENCE
    /\ nextval(seq) <= MaxId
    /\ seq' = [last_value |-> nextval(seq), is_called |-> TRUE]
    /\ rows' = rows \cup {nextval(seq)}
    /\ NoteWrite
    /\ UNCHANGED <<loadVars, dbTables, version, envVars>>

\* Another session inserts a row with an explicit id, and commits.
InsertManual(id) ==
    /\ modstate = "loaded"
    /\ id \notin rows
    /\ rows' = rows \cup {id}
    /\ NoteWrite
    /\ UNCHANGED <<loadVars, dbTables, seq, version, envVars>>

\* ------------------------------------------------------------ fix_sequence

FixIdle ==
    [pc |-> "returned", table_name |-> "", max_id |-> 0, stmts |-> {},
     committed |-> FALSE, rolled_back |-> FALSE, failed |-> FALSE,
     dirty |-> FALSE, after |-> FALSE]

\* `if not DATABASE_URL.startswith('postgresql'): return`, negated.
fix_applies(url) == StartsWith(url, "postgresql")

\* The restart value without the + 1.
restart_value_max(max_id) == max_id

\* RESTART WITH {max_id + 1}
restart_value(max_id) == max_id + 1

\* except Exception: print, db_session.rollback(); the function then returns.
fix_except(f) == [f EXCEPT !.pc = "returned", !.rolled_back = TRUE]

\* fix_sequence(table_name, db_session) is called: the gate, then SELECT MAX(id).
FixBegin(t, fails) ==
    /\ modstate = "loaded"
    /\ fix.pc = "returned"
    /\ LET f0 == [FixIdle EXCEPT !.table_name = t]
       IN  IF ~fix_applies(DATABASE_URL)
           THEN fix' = f0
           ELSE LET f1 == [f0 EXCEPT !.stmts = {"SELECT MAX"}]
                IN  IF fails \/ t \notin dbTables
                    THEN fix' = fix_except([f1 EXCEPT !.failed = TRUE])
                    ELSE fix' = [f1 EXCEPT !.pc = "alter",
                                           !.max_id = or_zero(select_max(rows))]
    /\ UNCHANGED <<loadVars, dbVars, req, version, envVars>>

\* ALTER SEQUENCE {table_name}_id_seq RESTART WITH {max_id + 1}, not yet committed.
FixAlter(fails) ==
    /\ fix.pc = "alter"
    /\ LET f1 == [fix EXCEPT !.stmts = @ \cup {"ALTER SEQUENCE"}]
       IN  fix' = IF fails THEN fix_except([f1 EXCEPT !.failed = TRUE])
                  ELSE [f1 EXCEPT !.pc = "commit"]
    /\ UNCHANGED <<loadVars, dbVars, req, version, envVars>>

\* db_session.commit(): the restart becomes the sequence's state.
FixCommit(fails) ==
    /\ fix.pc = "commit"
    /\ IF fails
       THEN /\ fix' = fix_except([fix EXCEPT !.failed = TRUE])
            /\ seq' = seq
       ELSE /\ fix' = [fix EXCEPT !.pc = "returned", !.committed = TRUE]
            /\ seq' = [last_value |-> restart_value(fix.max_id), is_called |-> FALSE]
    /\ UNCHANGED <<loadVars, dbTables, rows, req, version, envVars>>

\* ------------------------------------------------- requests and get_db

\* The request slots: requests that may be in flight at the same time.
Requests == {"r1", "r2"}

Handlers == {"database_check", "table_info", "sequence_check"}

NoResp == [status |-> 0]

\* A slot with no request in it.
ReqIdle ==
    [pc |-> "done", handler |-> "none", table_name |-> "", sess |-> "none",
     closes |-> 0, misuse |-> FALSE, log |-> {}, max_id |-> 0, expected_next |-> 0,
     fresh |-> FALSE, failed |-> "", outcome |-> "none", resp |-> NoResp]

\* A fix_sequence call on "users" has committed, and no insert has committed since
\* it read MAX(id).
Fresh == fix.pc = "returned" /\ fix.committed /\ fix.table_name = "users"
         /\ ~fix.dirty /\ ~fix.after

\* db.execute(...) on the request's session: log the statement, and note a use of
\* a session that is not open.
Execute(q, stmt) ==
    [q EXCEPT !.log = @ \cup {stmt}, !.misuse = @ \/ q.sess # "open"]

\* The handler returned `body`.
Return(q, body) == [q EXCEPT !.pc = "exit", !.outcome = "returned", !.resp = body]

\* The handler raised HTTPException(status_code, detail).
Raise(q, code, detail) ==
    [q EXCEPT !.pc = "exit", !.outcome = "raised",
              !.resp = [status |-> code, detail |-> detail]]

\* get_db up to its yield: db = SessionLocal(); the framework then calls the handler.
Begin(r, h, t) ==
    /\ modstate = "loaded"
    /\ req[r].pc = "done"
    /\ req' = [req EXCEPT ![r] = [ReqIdle EXCEPT !.pc = "handler", !.handler = h,
                                                 !.table_name = t, !.sess = "open"]]
    /\ UNCHANGED <<loadVars, dbVars, fix, version, envVars>>

\* get_db without try/finally: db.close() runs only when the handler returned.
get_db_no_finally(outcome) == outcome = "returned"

\* get_db's finally clause: db.close() runs however the handler ended.
get_db_finally(outcome) == TRUE

\* get_db after its yield, resumed (or thrown into) when the handler has ended.
Finish(r) ==
    /\ req[r].pc = "exit"
    /\ LET q == req[r]
           \* the response has gone out; the slot keeps how the request ended
           sent == [ReqIdle EXCEPT !.sess = q.sess, !.closes = q.closes,
                                   !.misuse = q.misuse, !.outcome = q.outcome]
       IN  req' = [req EXCEPT ![r] =
                     IF get_db_finally(q.outcome)
                     THEN [sent EXCEPT !.sess = "closed", !.closes = @ + 1]
                     ELSE sent]
    /\ UNCHANGED <<loadVars, dbVars, fix, version, envVars>>

\* ------------------------------------------------------------------ db-check

\* database_check's except clause re-raising instead of returning a payload.
database_check_except_raises(q, e) == Raise(q, 500, e)

\* except Exception as e: return {"connected": False, "error": str(e), ...}
database_check_except(q, e) ==
    Return(q, [status |-> 200, connected |-> FALSE, error |-> e,
               database_url_set |-> Truthy(getenv(environ, "DATABASE_URL", None))])

\* The success payload of db-check for the list get_table_names() returned.
database_check_ok(q, tables) ==
    Return(q, [status |-> 200, connected |-> TRUE,
               database_url_set |-> Truthy(getenv(environ, "DATABASE_URL", None)),
               table_count |-> Len(tables),
               tables |-> sorted(tables)])

\* GET /db-check. failAt: the call that raises, if any.
database_check(r, failAt, tables) ==
    /\ req[r].pc = "handler" /\ req[r].handler = "database_check"
    /\ LET q1 == Execute(req[r], "SELECT 1")
       IN  req' = [req EXCEPT ![r] =
                     CASE failAt = "SELECT 1" ->
                            database_check_except(
                                [q1 EXCEPT !.failed = failAt], "SELECT 1 failed")
                       [] failAt = "get_table_names" ->
                            database_check_except(
                                [q1 EXCEPT !.log = @ \cup {"get_table_names"},
                                           !.failed = failAt],
                                "get_table_names failed")
                       [] OTHER ->
                            database_check_ok(
                                [q1 EXCEPT !.log = @ \cup {"get_table_names"}], tables)]
    /\ UNCHANGED <<loadVars, dbVars, fix, version, envVars>>

\* ---------------------------------------------------------------- table-info

\* The except clauses without `except HTTPException: raise`.
table_info_except_broad(q, code, detail) ==
    Raise(q, 500, "Error getting table info")

\* except HTTPException: raise / except Exception: raise HTTPException(500).
\* code 0 stands for an exception that is no HTTPException.
table_info_except(q, code, detail) ==
    IF code # 0 THEN Raise(q, code, detail)
    ELSE Raise(q, 500, "Error getting table info")

\* `if table_name not in tables`
table_missing(table_name, tables) == table_name \notin tables

\* GET /table-info/{table_name}. failAt: the call that raises, if any.
table_info(r, failAt) ==
    /\ req[r].pc = "handler" /\ req[r].handler = "table_info"
    /\ LET q  == req[r]
           t  == q.table_name
           q1 == [q EXCEPT !.log = @ \cup {"get_table_names"}]
           q2 == [q1 EXCEPT !.log = @ \cup {"get_columns"}]
           q3 == Execute(q2, "SELECT COUNT")
           q4 == [q3 EXCEPT !.log = @ \cup {"get_indexes"}]
       IN  req' = [req EXCEPT ![r] =
             IF failAt = "get_table_names"
             THEN table_info_except([q1 EXCEPT !.failed = failAt], 0, "")
             ELSE IF table_missing(t, dbTables)
             THEN table_info_except(q1, 404, "Table not found")
             ELSE IF failAt = "get_columns" \/ t \notin dbTables
             THEN table_info_except([q2 EXCEPT !.failed = "get_columns"], 0, "")
             ELSE IF failAt = "SELECT COUNT"
             THEN table_info_except([q3 EXCEPT !.failed = failAt], 0, "")
             ELSE IF failAt = "get_indexes"
             THEN table_info_except([q4 EXCEPT !.failed = failAt], 0, "")
             ELSE Return(q4, [status |-> 200, table_name |-> t,
                              row_count |-> Cardinality(rows)])]
    /\ UNCHANGED <<loadVars, dbVars, fix, version, envVars>>

\* ------------------------------------------------------------ sequence-check

\* f"{table_name}_id_seq"
sequence_name(table_name) == table_name \o "_id_seq"

\* The fix_command entry when there is none (Python None).
NoCommand == <<>>

\* f"ALTER SEQUENCE {sequence_name} RESTART WITH {max_id + 1};"
fix_command(table_name, max_id) ==
    <<"ALTER SEQUENCE ", sequence_name(table_name), " RESTART WITH ", max_id + 1, ";">>

\* The comparison with >= in place of >.
in_sync_geq(next_val, max_id) == next_val >= max_id

\* in_sync = next_val > max_id
in_sync(next_val, max_id) == next_val > max_id

\* The payload sequence-check returns on PostgreSQL.
sequence_check_body(table_name, max_id, next_val) ==
    [status |-> 200, table_name |-> table_name, max_id |-> max_id,
     next_sequence_value |-> next_val,
     in_sync |-> in_sync(next_val, max_id),
     needs_fix |-> ~in_sync(next_val, max_id),
     fix_command |-> IF ~in_sync(next_val, max_id)
                     THEN fix_command(table_name, max_id) ELSE NoCommand]

\* The gate of sequence-check, negated: the queries are run.
sequence_check_applies(database_url) == StartsWith(database_url, "postgresql")

\* GET /sequence-check/{table_name}: the gate, then SELECT MAX(id).
sequence_check(r, fails) ==
    /\ req[r].pc = "handler" /\ req[r].handler = "sequence_check"
    /\ LET q == req[r]
           database_url == getenv(environ, "DATABASE_URL", "")
           q1 == Execute(q, "SELECT MAX")
       IN  req' = [req EXCEPT ![r] =
             IF ~sequence_check_applies(database_url)
             THEN Return(q, [status |-> 200,
                             error |-> "Sequence check only applicable to PostgreSQL",
                             database_type |-> IF StartsWith(database_url, "sqlite")
                                               THEN "sqlite" ELSE "unknown"])
             ELSE IF fails \/ q.table_name \notin dbTables
             THEN Raise([q1 EXCEPT !.failed = "SELECT MAX"], 500, "Error checking sequence")
             ELSE [q1 EXCEPT !.pc = "last_value",
                             !.max_id = or_zero(select_max(rows)),
                             !.fresh = Fresh]]
    /\ UNCHANGED <<loadVars, dbVars, fix, version, envVars>>

\* What SELECT last_value FROM <sequence> returns.
select_last_value(s) == s.last_value

\* sequence-check, continued: SELECT last_value, the comparison, the payload.
sequence_check_last_value(r, fails) ==
    /\ req[r].pc = "last_value"
    /\ LET q1 == Execute(req[r], "SELECT last_value")
       IN  req' = [req EXCEPT ![r] =
             IF fails
             THEN Raise([q1 EXCEPT !.failed = "SELECT last_value"], 500,
                        "Error checking sequence")
             ELSE Return([q1 EXCEPT !.expected_next = nextval(seq)],
                         sequence_check_body(q1.table_name, q1.max_id,
                                             select_last_value(seq)))]
    /\ UNCHANGED <<loadVars, dbVars, fix, version, envVars>>

\* -------------------------------------------------------------- env-check

\* Names whose value differs between two environments.
EnvDiff(e1, e2) == {k \in EnvNames : getenv(e1, k, None) # getenv(e2, k, None)}

\* The comparison's second environment gets another value for one variable.
Perturb(k, v) ==
    /\ envResp = NoResp
    /\ v # getenv(environ2, k, None)
    /\ LET choice == [n \in EnvNames |-> IF n = k THEN v ELSE getenv(environ2, n, None)]
       IN  /\ Cardinality(EnvDiff(environ, EnvOf(choice))) <= MaxDiff
           /\ environ2' = EnvOf(choice)
    /\ UNCHANGED <<loadVars, dbVars, req, fix, version, envResp, envResp2>>

\* GET /env-check, once in each of the two environments.
EnvCheck(now, now2) ==
    /\ envResp = NoResp
    /\ envResp' = environment_check(environ, now)
    /\ envResp2' = environment_check(environ2, now2)
    /\ UNCHANGED <<loadVars, dbVars, req, fix, version, environ2>>

\* ------------------------------------------------------------ specifications

IdleVars ==
    /\ req = [r \in Requests |-> ReqIdle]
    /\ fix = FixIdle
    /\ version = NoResp
    /\ envResp = NoResp
    /\ envResp2 = NoResp

\* The process starts: the environment and the .env file are what the deployment
\* made them; the database holds the schema's tables, no rows, unused sequences.
Init ==
    /\ \E d \in Deployments : environ = UrlEnv(d[1]) /\ dotenv = UrlEnv(d[2])
    /\ platform_url = getenv(environ, "DATABASE_URL", None)
    /\ environ2 = environ
    /\ modstate = "init"
    /\ dotenv_read = FALSE
    /\ DATABASE_URL = None
    /\ engine = NoEngine
    /\ SessionLocal = FALSE
    /\ dbTables = SchemaTables
    /\ rows = {}
    /\ seq = FreshSeq
    /\ IdleVars

Next ==
    \/ Load
    \/ InsertSeq
    \/ \E id \in 1..MaxId : InsertManual(id)
    \/ \E t \in TableArgs, fails \in BOOLEAN : FixBegin(t, fails)
    \/ \E fails \in BOOLEAN : FixAlter(fails)
    \/ \E fails \in BOOLEAN : FixCommit(fails)
    \/ \E r \in Requests, h \in Handlers, t \in TableArgs : Begin(r, h, t)
    \/ \E r \in Requests : Finish(r)
    \/ \E r \in Requests, failAt \in {"none", "SELECT 1", "get_table_names"},
          tables \in Orderings(dbTables) : database_check(r, failAt, tables)
    \/ \E r \in Requests,
          failAt \in {"none", "get_table_names", "get_columns", "SELECT COUNT", "get_indexes"} :
          table_info(r, failAt)
    \/ \E r \in Requests, fails \in BOOLEAN : sequence_check(r, fails)
    \/ \E r \in Requests, fails \in BOOLEAN : sequence_check_last_value(r, fails)

Spec == Init /\ [][Next]_vars

\* The process with a database nobody else writes to, and /version.
NextConfig ==
    \/ Load
    \/ VersionInfo
    \/ \E t \in TableArgs, fails \in BOOLEAN : FixBegin(t, fails)
    \/ \E fails \in BOOLEAN : FixAlter(fails)
    \/ \E fails \in BOOLEAN : FixCommit(fails)
    \/ \E r \in Requests, t \in TableArgs : Begin(r, "sequence_check", t)
    \/ \E r \in Requests : Finish(r)
    \/ \E r \in Requests, fails \in BOOLEAN : sequence_check(r, fails)
    \/ \E r \in Requests, fails \in BOOLEAN : sequence_check_last_value(r, fails)

SpecConfig == Init /\ [][NextConfig]_vars

\* The env-check comparison: two environments, the module not involved.
InitEnv ==
    /\ \E choice \in [EnvNames -> UNION {FirstEnvValues(k) : k \in EnvNames}] :
          /\ \A k \in EnvNames : choice[k] \in FirstEnvValues(k)
          /\ environ = EnvOf(choice)
    /\ environ2 = environ
    /\ platform_url = getenv(environ, "DATABASE_URL", None)
    /\ dotenv = UrlEnv(None)
    /\ modstate = "init"
    /\ dotenv_read = FALSE
    /\ DATABASE_URL = None
    /\ engine = NoEngine
    /\ SessionLocal = FALSE
    /\ dbTables = SchemaTables
    /\ rows = {}
    /\ seq = FreshSeq
    /\ IdleVars

NextEnv ==
    \/ \E k \in EnvNames, v \in UNION {EnvValues(n) : n \in EnvNames} :
          v \in EnvValues(k) /\ Perturb(k, v)
    \/ \E now \in Timestamps, now2 \in Timestamps : EnvCheck(now, now2)

SpecEnv == InitEnv /\ [][NextEnv]_vars

\* ------------------------------------------------------------------ claims

\* The handler of request r has ended and its response is known.
Ended(r, h) == req[r].pc = "exit" /\ req[r].handler = h

\* The request is between get_db's yield and its finally clause.
InFlight(q) == q.pc \in {"handler", "last_value", "exit"}

\* C1: the session of a request is open while the request is in flight, is closed
\* exactly once when it has completed (handler returned or raised), and is never
\* used when it is not open.
C1_SessionClosedOnce ==
    \A r \in Requests :
        LET q == req[r]
        IN  /\ ~q.misuse
            /\ InFlight(q) => q.sess = "open" /\ q.closes = 0
            /\ q.pc = "done" =>
                  \/ q.outcome = "none" /\ q.sess = "none" /\ q.closes = 0
                  \/ q.outcome # "none" /\ q.sess = "closed" /\ q.closes = 1

\* C1 witness: a request whose handler raised has completed with its session closed
\* once, while another request still holds its open session.
C1_Witness ==
    \E r, o \in Requests :
        /\ r # o
        /\ req[r].pc = "done" /\ req[r].outcome = "raised"
        /\ req[r].sess = "closed" /\ req[r].closes = 1
        /\ InFlight(req[o]) /\ req[o].sess = "open"

\* C2: on PostgreSQL a sequence-check that answers 200 reports in_sync exactly when
\* the reported sequence value is greater than the reported max id (0 for an empty
\* table, else an id of the table), needs_fix is its negation, and fix_command is
\* None when in sync and else restarts <table>_id_seq at max_id + 1.
C2_SequenceCheckVerdict ==
    \A r \in Requests :
        Ended(r, "sequence_check") /\ req[r].outcome = "returned"
        /\ StartsWith(DATABASE_URL, "postgresql") =>
            LET b == req[r].resp
            IN  /\ DOMAIN b = {"status", "table_name", "max_id", "next_sequence_value",
                               "in_sync", "needs_fix", "fix_command"}
                /\ b.table_name = req[r].table_name
                /\ b.max_id = req[r].max_id
                /\ rows = {} => b.max_id = 0
                /\ b.max_id # 0 => b.max_id \in rows
                /\ b.in_sync = (b.next_sequence_value > b.max_id)
                /\ b.needs_fix = ~b.in_sync
                /\ b.in_sync => b.fix_command = NoCommand
                /\ ~b.in_sync =>
                      b.fix_command = <<"ALTER SEQUENCE ", "users_id_seq",
                                        " RESTART WITH ", b.max_id + 1, ";">>

\* C2 witness: a sequence-check that found the sequence value equal to the max id
\* and answers with a fix command.
C2_Witness ==
    \E r \in Requests :
        /\ Ended(r, "sequence_check") /\ req[r].outcome = "returned"
        /\ "in_sync" \in DOMAIN req[r].resp
        /\ req[r].resp.max_id >= 1
        /\ req[r].resp.next_sequence_value = req[r].resp.max_id
        /\ ~req[r].resp.in_sync
        /\ req[r].resp.fix_command # NoCommand

\* C3: next_sequence_value is the value the sequence gives next, i.e. what nextval
\* would have returned when the sequence was read.
C3_NextSequenceValueIsNext ==
    \A r \in Requests :
        Ended(r, "sequence_check") /\ "next_sequence_value" \in DOMAIN req[r].resp =>
            req[r].resp.next_sequence_value = req[r].expected_next

\* Two environments have the same variables set (non-empty).
SameVariablesSet(e1, e2) ==
    \A k \in EnvNames : Truthy(getenv(e1, k, None)) = Truthy(getenv(e2, k, None))

\* An env-check response apart from its timestamp.
ApartFromTimestamp(b) == [environment |-> b.environment, variables |-> b.variables]

\* C4 as stated: two environments with the same variables set get the same
\* env-check response apart from the timestamp.
C4_EnvCheckHidesValues ==
    envResp # NoResp /\ SameVariablesSet(environ, environ2) =>
        ApartFromTimestamp(envResp) = ApartFromTimestamp(envResp2)

\* C4 amended: two environments with the same variables set and the same
\* os.getenv('ENVIRONMENT', 'unknown') get the same env-check response apart from
\* the timestamp.
C4_EnvCheckHidesValuesButEnvironment ==
    /\ envResp # NoResp
    /\ SameVariablesSet(environ, environ2)
    /\ getenv(environ, "ENVIRONMENT", "unknown") = getenv(environ2, "ENVIRONMENT", "unknown")
    => ApartFromTimestamp(envResp) = ApartFromTimestamp(envResp2)

\* C4 witness: two environments that differ in the value of a set variable other
\* than ENVIRONMENT, answered at different times with the same payload.
C4_Witness ==
    /\ envResp # NoResp
    /\ environ2 # environ
    /\ SameVariablesSet(environ, environ2)
    /\ getenv(environ, "ENVIRONMENT", "unknown") = getenv(environ2, "ENVIRONMENT", "unknown")
    /\ Truthy(getenv(environ, "FINNHUB_API_KEY", None))
    /\ getenv(environ, "FINNHUB_API_KEY", None) # getenv(environ2, "FINNHUB_API_KEY", None)
    /\ envResp.timestamp # envResp2.timestamp
    /\ ApartFromTimestamp(envResp) = ApartFromTimestamp(envResp2)

\* C5: table-info answers 404 exactly when the table listing was obtained and the
\* name is not in it, 500 exactly when a call raised, 200 otherwise; the 404 stays
\* a 404, and no row count is queried for a table that is not in the database.
C5_TableInfoStatus ==
    \A r \in Requests :
        Ended(r, "table_info") =>
            LET q == req[r]
                listed == q.failed # "get_table_names"
            IN  /\ q.resp.status \in {200, 404, 500}
                /\ q.resp.status = 404 <=> (listed /\ q.table_name \notin dbTables)
                /\ q.resp.status = 500 <=> q.failed # ""
                /\ q.resp.status = 200 <=> (q.failed = "" /\ q.table_name \in dbTables)
                /\ q.resp.status # 200 <=> q.outcome = "raised"
                /\ q.table_name \notin dbTables => "SELECT COUNT" \notin q.log
                /\ q.resp.status = 200 => q.resp.row_count \in 0..Cardinality(rows)

\* C5 witness: a table-info request for a missing table ended in a 404 without a
\* row-count query.
C5_Witness ==
    \E r \in Requests :
        /\ Ended(r, "table_info")
        /\ req[r].table_name \notin dbTables
        /\ req[r].resp.status = 404
        /\ req[r].outcome = "raised"
        /\ "SELECT COUNT" \notin req[r].log

\* Ascending order of a list of str.
Ascending(l) == \A i \in 1..(Len(l) - 1) : StrLess(l[i], l[i + 1])

\* C6: db-check never raises; connected is true exactly when SELECT 1 and the table
\* listing both succeeded, then with the number of tables and their sorted names,
\* and otherwise false together with the error text.
C6_DbCheckNeverRaises ==
    \A r \in Requests :
        Ended(r, "database_check") =>
            LET q == req[r]
                b == q.resp
            IN  /\ q.outcome = "returned"
                /\ b.status = 200
                /\ b.connected \in BOOLEAN
                /\ b.connected <=> q.failed = ""
                /\ b.connected =>
                      /\ b.table_count = Cardinality(dbTables)
                      /\ Len(b.tables) = Cardinality(dbTables)
                      /\ {b.tables[i] : i \in 1..Len(b.tables)} = dbTables
                      /\ Ascending(b.tables)
                      /\ dbTables = {"items", "users"} => b.tables = <<"items", "users">>
                /\ ~b.connected => "error" \in DOMAIN b /\ b.error # ""

\* C6 witness: a db-check whose table listing raised after a successful SELECT 1
\* returned connected false with the error.
C6_Witness ==
    \E r \in Requests :
        /\ Ended(r, "database_check")
        /\ req[r].failed = "get_table_names"
        /\ req[r].outcome = "returned"
        /\ ~req[r].resp.connected
        /\ req[r].resp.error # ""

\* C7: once the connection module has run, .env was read exactly when the platform
\* had not set DATABASE_URL (unset or empty); a DATABASE_URL set by the platform is
\* the one in use; and the module failed, with no engine and no session factory,
\* exactly when DATABASE_URL was still unset or empty.
C7_LoadRespectsPlatform ==
    modstate # "init" =>
        /\ dotenv_read <=> ~Truthy(platform_url)
        /\ Truthy(platform_url) =>
              /\ DATABASE_URL = platform_url
              /\ getenv(environ, "DATABASE_URL", None) = platform_url
        /\ modstate = "failed" <=> ~Truthy(DATABASE_URL)
        /\ modstate = "failed" => engine = NoEngine /\ ~SessionLocal
        /\ modstate = "loaded" => engine # NoEngine /\ SessionLocal

\* C7 witness: the platform set DATABASE_URL, the .env file names another database,
\* and the module loaded with the platform's value without reading the file.
C7_Witness ==
    /\ modstate = "loaded"
    /\ Truthy(platform_url)
    /\ Truthy(getenv(dotenv, "DATABASE_URL", None))
    /\ getenv(dotenv, "DATABASE_URL", None) # platform_url
    /\ ~dotenv_read
    /\ DATABASE_URL = platform_url

\* C8: a fix_sequence call on PostgreSQL that committed leaves the sequence
\* restarted at MAX(id) + 1, and a sequence-check made with no insert since reports
\* in_sync, no needs_fix and no fix command; on another backend the call issues no
\* statement and no commit; a call in which a statement failed has rolled back,
\* has not committed, and has returned.
C8_FixThenCheckInSync ==
    /\ Fresh => seq = [last_value |-> or_zero(select_max(rows)) + 1, is_called |-> FALSE]
    /\ \A r \in Requests :
          Ended(r, "sequence_check") /\ req[r].outcome = "returned" /\ req[r].fresh =>
              /\ req[r].resp.in_sync
              /\ ~req[r].resp.needs_fix
              /\ req[r].resp.fix_command = NoCommand
    /\ fix.committed => StartsWith(DATABASE_URL, "postgresql")
                        /\ fix.stmts = {"SELECT MAX", "ALTER SEQUENCE"}
    /\ fix.table_name # "" /\ ~StartsWith(DATABASE_URL, "postgresql") =>
          fix.pc = "returned" /\ fix.stmts = {} /\ ~fix.committed /\ ~fix.rolled_back
    /\ fix.failed => fix.pc = "returned" /\ fix.rolled_back /\ ~fix.committed
    /\ fix.rolled_back => fix.failed

\* C8 witness: after a manual insert, a fix_sequence call committed and a
\* sequence-check made afterwards, with no insert since, answered in sync.
C8_Witness ==
    \E r \in Requests :
        /\ Ended(r, "sequence_check") /\ req[r].outcome = "returned"
        /\ req[r].fresh
        /\ req[r].resp.max_id >= 1
        /\ req[r].resp.in_sync
        /\ req[r].resp.fix_command = NoCommand

\* C9: whenever the engine has the PostgreSQL pool settings, /version reports
\* PostgreSQL, sequence-check runs its queries and fix_sequence performs the fix;
\* whenever the engine is configured for SQLite, /version reports SQLite.
C9_ClassifiersAgree ==
    modstate = "loaded" =>
        /\ engine.kind = "postgresql" /\ version # NoResp =>
              version.database_type = "PostgreSQL"
        /\ engine.kind = "postgresql" =>
              \A r \in Requests :
                  Ended(r, "sequence_check") => "error" \notin DOMAIN req[r].resp
        /\ engine.kind = "postgresql" /\ fix.table_name # "" => fix.stmts # {}
        /\ engine.kind = "sqlite" /\ version # NoResp =>
              version.database_type = "SQLite"

\* C10: when fix_sequence has committed, and until the next insert, the value the
\* sequence gives next is greater than every committed id of the table, whatever
\* inserts other sessions committed while the call ran.
C10_FixedSequenceAhead ==
    fix.pc = "returned" /\ fix.committed /\ ~fix.after =>
        nextval(seq) > or_zero(select_max(rows))

====
